---- MODULE Spec2Model ----
(***************************************************************************)
(* Model of the scan / plan / apply core of dungeon_server.py.             *)
(*                                                                         *)
(* A path is the sequence of its components below the scanned root (the    *)
(* root itself is <<>>).  A component is a name record                     *)
(*   [base, dups, ext]   standing for   base ("_dup" i)* ext               *)
(* so that "x_dup1.txt" is [base |-> "x", dups |-> <<1>>, ext |-> ".txt"]. *)
(* Two name records are equal exactly when the strings they stand for are  *)
(* equal (no base name of the model contains "_dup" or a dot).             *)
(* Room names are written without their emoji prefix.                      *)
(***************************************************************************)
EXTENDS Integers, Sequences, FiniteSets, TLC

VARIABLES files, dirs, locked, session_output_dir, LAST_OUTPUT_DIR, result, calls

vars == <<files, dirs, locked, session_output_dir, LAST_OUTPUT_DIR, result, calls>>

(* ---------------- bounds ---------------- *)
MaxFiles == 3     \* files in the initial tree
MaxLocked == 1    \* files of the initial tree that cannot be moved
MaxCalls == 2     \* tool calls in one behaviour
MaxInventory == 3 \* records of an inventory handed to _detect_monsters
MaxTotal == 50    \* records of an inventory handed to _quest_progress

(* ---------------- names and paths ---------------- *)
N(b, e) == [base |-> b, dups |-> <<>>, ext |-> e]

Last(p) == p[Len(p)]

Parent(p) == SubSeq(p, 1, Len(p) - 1)

IsPrefix(p, q) == Len(p) <= Len(q) /\ SubSeq(q, 1, Len(p)) = p

Prefixes(p) == {SubSeq(p, 1, k) : k \in 1..Len(p)}

\* str.lower() on the extensions of the model
Lower(e) == CASE e = ".PNG" -> ".png" [] e = ".TXT" -> ".txt" [] OTHER -> e

\* f"{stem}_dup{i}{suf}"
DupName(filename, i) ==
    [base |-> filename.base, dups |-> Append(filename.dups, i), ext |-> filename.ext]

(* ---------------- module constants ---------------- *)
RoomOrder == <<"Images Room", "Docs Library", "Code Cave", "Media Hall", "Archives Vault">>

ROOM_RULES ==
    [room \in {RoomOrder[k] : k \in 1..Len(RoomOrder)} |->
        CASE room = "Images Room" -> {".png", ".jpg", ".jpeg", ".webp", ".gif", ".bmp", ".tiff"}
          [] room = "Docs Library" -> {".pdf", ".docx", ".doc", ".pptx", ".ppt", ".xlsx", ".xls", ".txt", ".md", ".csv"}
          [] room = "Code Cave" -> {".py", ".js", ".ts", ".java", ".cs", ".cpp", ".c", ".html", ".css", ".json", ".sql", ".yml", ".yaml"}
          [] room = "Media Hall" -> {".mp4", ".mov", ".mkv", ".mp3", ".wav", ".avi", ".flac", ".m4a"}
          [] room = "Archives Vault" -> {".zip", ".rar", ".7z", ".tar", ".gz", ".iso"}]

SortedName == N("_Sorted", "")

OutputName == N("_DungeonOutput", "")

DEFAULT_EXCLUDE_DIRS == {SortedName, OutputName}

(* ---------------- the filesystem ---------------- *)
IsFile(fs, p) == p \in DOMAIN fs

IsDir(ds, p) == p = <<>> \/ p \in ds

Exists(fs, ds, p) == IsFile(fs, p) \/ IsDir(ds, p)

Put(fs, p, c) == [q \in DOMAIN fs \cup {p} |-> IF q = p THEN c ELSE fs[q]]

Remove(fs, p) == [q \in DOMAIN fs \ {p} |-> fs[q]]

\* Path.mkdir(parents=True, exist_ok=True) raises when the path or one of its
\* ancestors is a regular file, and creates nothing in that case.
MkdirOk(fs, p) == \A q \in Prefixes(p) : ~IsFile(fs, q)

Mkdir(ds, p) == ds \cup Prefixes(p)

\* The order in which the filesystem enumerates a set of paths: implementation
\* defined, the same for the same set.
RECURSIVE TraversalOrder(_)
TraversalOrder(S) ==
    IF S = {} THEN <<>>
    ELSE LET p == CHOOSE q \in S : TRUE IN <<p>> \o TraversalOrder(S \ {p})

(* ---------------- helpers ---------------- *)
_resolve_output_dir(base, output_dir) ==
    CASE output_dir = "dungeon_output" -> Append(base, OutputName)
      [] output_dir = "." -> base
      [] OTHER -> Append(base, N(output_dir, ""))

RECURSIVE RoomScan(_, _)
RoomScan(ext, k) ==
    IF k > Len(RoomOrder) THEN "Unknown Swamp"
    ELSE IF ext \in ROOM_RULES[RoomOrder[k]] THEN RoomOrder[k]
    ELSE RoomScan(ext, k + 1)

_room_for(ext) == RoomScan(Lower(ext), 1)

\* The recursive scan drops a path when any of its components is an excluded
\* name, regular files called _Sorted or _DungeonOutput included; the
\* components of the root's own path are assumed not to be excluded names.
\* The flat scan applies no exclusion.
_iter_files(fs, base, include_subfolders, exclude_dirs) ==
    IF include_subfolders
    THEN TraversalOrder({p \in DOMAIN fs :
            /\ IsPrefix(base, p)
            /\ p # base
            /\ ~\E k \in 1..Len(p) : p[k] \in exclude_dirs})
    ELSE TraversalOrder({p \in DOMAIN fs : Parent(p) = base /\ p # base})

RECURSIVE SafeDestLoop(_, _, _, _, _)
SafeDestLoop(fs, ds, dest_dir, filename, i) ==
    LET dest == Append(dest_dir, DupName(filename, i)) IN
    IF Exists(fs, ds, dest) THEN SafeDestLoop(fs, ds, dest_dir, filename, i + 1)
    ELSE dest

_safe_dest(fs, ds, dest_dir, filename) ==
    IF Exists(fs, ds, Append(dest_dir, filename))
    THEN SafeDestLoop(fs, ds, dest_dir, filename, 1)
    ELSE Append(dest_dir, filename)

already_sorted(p, sorted_root) == IsPrefix(sorted_root, p)

\* The loop of _plan_reorganize over the candidates, from candidate i on.
\* It returns the directories present when it stops, the moves planned so
\* far and whether dest_dir.mkdir raised.
RECURSIVE PlanLoop(_, _, _, _, _, _)
PlanLoop(fs, ds, sorted_root, candidates, i, changes) ==
    IF i > Len(candidates)
    THEN [raised |-> FALSE, dirs |-> ds, changes |-> changes]
    ELSE LET src == candidates[i] IN
         IF already_sorted(src, sorted_root)
         THEN PlanLoop(fs, ds, sorted_root, candidates, i + 1, changes)
         ELSE LET room == _room_for(Lower(Last(src).ext))
                  dest_dir == Append(sorted_root, N(room, ""))
              IN IF ~MkdirOk(fs, dest_dir)
                 THEN [raised |-> TRUE, dirs |-> ds, changes |-> changes]
                 ELSE LET ds2 == Mkdir(ds, dest_dir)
                          dest == _safe_dest(fs, ds2, dest_dir, Last(src))
                      IN PlanLoop(fs, ds2, sorted_root, candidates, i + 1,
                                  Append(changes, [from |-> src, to |-> dest, room |-> room]))

\* A planner that takes every regular file below the root as a candidate
\* and skips none.
RECURSIVE PlanLoopAll(_, _, _, _, _, _)
PlanLoopAll(fs, ds, sorted_root, candidates, i, changes) ==
    IF i > Len(candidates)
    THEN [raised |-> FALSE, dirs |-> ds, changes |-> changes]
    ELSE LET src == candidates[i]
             room == _room_for(Lower(Last(src).ext))
             dest_dir == Append(sorted_root, N(room, ""))
         IN IF ~MkdirOk(fs, dest_dir)
            THEN [raised |-> TRUE, dirs |-> ds, changes |-> changes]
            ELSE LET ds2 == Mkdir(ds, dest_dir)
                     dest == _safe_dest(fs, ds2, dest_dir, Last(src))
                 IN PlanLoopAll(fs, ds2, sorted_root, candidates, i + 1,
                                Append(changes, [from |-> src, to |-> dest, room |-> room]))

_plan_reorganizeAll(fs, ds, base, include_subfolders, exclude_dirs) ==
    LET sorted_root == Append(base, SortedName) IN
    IF ~MkdirOk(fs, sorted_root)
    THEN [raised |-> TRUE, dirs |-> ds, changes |-> <<>>]
    ELSE PlanLoopAll(fs, Mkdir(ds, sorted_root), sorted_root,
                     _iter_files(fs, base, include_subfolders, {}), 1, <<>>)

_plan_reorganize(fs, ds, base, include_subfolders, exclude_dirs) ==
    LET sorted_root == Append(base, SortedName) IN
    IF ~MkdirOk(fs, sorted_root)
    THEN [raised |-> TRUE, dirs |-> ds, changes |-> <<>>]
    ELSE PlanLoop(fs, Mkdir(ds, sorted_root), sorted_root,
                  _iter_files(fs, base, include_subfolders, exclude_dirs), 1, <<>>)

\* shutil.move(src, dst) preceded by dst.parent.mkdir(parents=True,
\* exist_ok=True): the body of the try block of reorganize for one move.
\* A locked file is one whose move raises PermissionError and leaves it in
\* place.  os.rename replaces an existing regular file at dst.
MoveOne(fs, ds, src, dst) ==
    IF ~MkdirOk(fs, Parent(dst))
    THEN [ok |-> FALSE, files |-> fs, dirs |-> ds, error |-> "FileExistsError"]
    ELSE LET ds2 == Mkdir(ds, Parent(dst))
             real_dst == IF IsDir(ds2, dst) THEN Append(dst, Last(src)) ELSE dst
         IN IF ~IsFile(fs, src)
            THEN [ok |-> FALSE, files |-> fs, dirs |-> ds2, error |-> "FileNotFoundError"]
            ELSE IF IsDir(ds2, dst) /\ Exists(fs, ds2, real_dst)
            THEN [ok |-> FALSE, files |-> fs, dirs |-> ds2, error |-> "already exists"]
            ELSE IF fs[src] \in locked
            THEN [ok |-> FALSE, files |-> fs, dirs |-> ds2, error |-> "PermissionError"]
            ELSE [ok |-> TRUE, files |-> Put(Remove(fs, src), real_dst, fs[src]),
                  dirs |-> ds2, error |-> ""]

\* An apply loop that gives up at the first move that fails.
RECURSIVE ApplyLoopAbort(_, _, _, _, _, _, _)
ApplyLoopAbort(fs, ds, changes, i, applied, failed, attempts) ==
    IF i > Len(changes)
    THEN [files |-> fs, dirs |-> ds, applied |-> applied, failed |-> failed,
          attempts |-> attempts]
    ELSE LET c == changes[i]
             m == MoveOne(fs, ds, c.from, c.to)
         IN IF m.ok
            THEN ApplyLoopAbort(m.files, m.dirs, changes, i + 1, applied + 1, failed,
                                Append(attempts, [move |-> i, applied |-> TRUE,
                                                  content |-> fs[c.from]]))
            ELSE [files |-> m.files, dirs |-> m.dirs, applied |-> applied,
                  failed |-> Append(failed, [from |-> c.from, to |-> c.to, error |-> m.error]),
                  attempts |-> Append(attempts, [move |-> i, applied |-> FALSE,
                                                 content |-> [kind |-> "none"]])]

\* The loop of reorganize(mode="apply") over the plan, from move i on.
\* attempts lists the moves tried, in the order tried, each with its outcome
\* and the file that was moved.
RECURSIVE ApplyLoop(_, _, _, _, _, _, _)
ApplyLoop(fs, ds, changes, i, applied, failed, attempts) ==
    IF i > Len(changes)
    THEN [files |-> fs, dirs |-> ds, applied |-> applied, failed |-> failed,
          attempts |-> attempts]
    ELSE LET c == changes[i]
             m == MoveOne(fs, ds, c.from, c.to)
         IN IF m.ok
            THEN ApplyLoop(m.files, m.dirs, changes, i + 1, applied + 1, failed,
                           Append(attempts, [move |-> i, applied |-> TRUE,
                                             content |-> fs[c.from]]))
            ELSE ApplyLoop(m.files, m.dirs, changes, i + 1, applied,
                           Append(failed, [from |-> c.from, to |-> c.to, error |-> m.error]),
                           Append(attempts, [move |-> i, applied |-> FALSE,
                                             content |-> [kind |-> "none"]]))

Reverse(s) == [k \in 1..Len(s) |-> s[Len(s) + 1 - k]]

\* An undo script that lists the moves in plan order.
UndoLinesForward(changes) ==
    [k \in 1..Len(changes) |->
        [literalPath |-> changes[k].to, destination |-> changes[k].from]]

\* The text of undo.ps1: one Move-Item line per move of the plan, last move
\* first, under $ErrorActionPreference = 'Stop'.
UndoLines(changes) ==
    [k \in 1..Len(changes) |->
        [literalPath |-> Reverse(changes)[k].to, destination |-> Reverse(changes)[k].from]]

_write_undo_ps1(fs, out, changes) ==
    Put(fs, Append(out, N("undo", ".ps1")), [kind |-> "undo", lines |-> UndoLines(changes)])

\* One line of undo.ps1: Move-Item -LiteralPath X -Destination Y.  It is an
\* error when X is missing or cannot be moved, when the target exists or when
\* the directory of the target is missing; a Y that is a directory receives
\* the file under its own name.
MoveItem(fs, ds, X, Y) ==
    LET target == IF IsDir(ds, Y) THEN Append(Y, Last(X)) ELSE Y IN
    IF \/ ~IsFile(fs, X)
       \/ fs[X] \in locked
       \/ Exists(fs, ds, target)
       \/ ~IsDir(ds, Parent(target))
    THEN [ok |-> FALSE, files |-> fs]
    ELSE [ok |-> TRUE, files |-> Put(Remove(fs, X), target, fs[X])]

\* undo.ps1 run from line k on: $ErrorActionPreference = 'Stop' ends the
\* script at the first line that fails.
RECURSIVE RunScript(_, _, _, _)
RunScript(fs, ds, lines, k) ==
    IF k > Len(lines) THEN [files |-> fs, undone |-> "completed"]
    ELSE LET m == MoveItem(fs, ds, lines[k].literalPath, lines[k].destination) IN
         IF m.ok THEN RunScript(m.files, ds, lines, k + 1)
         ELSE [files |-> fs, undone |-> "stopped"]

(* ---------------- anomalies ---------------- *)
\* str.lower() on the base names of the model
LowerBase(b) ==
    CASE b = "X" -> "x"
      [] b = "_Sorted" -> "_sorted"
      [] b = "_DungeonOutput" -> "_dungeonoutput"
      [] b = "Docs Library" -> "docs library"
      [] b = "None" -> "none"
      [] OTHER -> b

\* f["name"].lower()
NameLower(name) == [name EXCEPT !.base = LowerBase(name.base), !.ext = Lower(name.ext)]

\* p.stat().st_size: a file of the tree carries its size, the documents the
\* tools write are small.
StatSize(c) == IF c.kind = "data" THEN c.size ELSE 1

\* Bytes that tell files apart by their size alone.
BytesSizeOnly(c) == [kind |-> c.kind, size |-> StatSize(c)]

\* The bytes of a file: two files of the tree hold the same bytes exactly
\* when they have the same size and the same content id.
Bytes(c) == IF c.kind = "data" THEN [kind |-> "data", id |-> c.id, size |-> c.size] ELSE c

\* p.open("rb") succeeds
Readable(c) == IF c.kind = "data" THEN c.readable ELSE TRUE

max_mb == 50

None == [ok |-> FALSE]

\* A hash that ignores the size cap.
_sha256_fileNoCap(fs, p) ==
    IF ~IsFile(fs, p) THEN None
    ELSE IF ~Readable(fs[p]) THEN None
    ELSE [ok |-> TRUE, hex |-> Bytes(fs[p])]

\* None when the file is missing, larger than max_mb MiB or cannot be read;
\* otherwise its digest, equal for two files exactly when their bytes are.
_sha256_file(fs, p) ==
    IF ~IsFile(fs, p) THEN None
    ELSE IF StatSize(fs[p]) > max_mb * 1024 * 1024 THEN None
    ELSE IF ~Readable(fs[p]) THEN None
    ELSE [ok |-> TRUE, hex |-> Bytes(fs[p])]

\* A size test that takes the limit itself for a behemoth.
IsBehemothAtLeast(size) == size >= 200 * 1024 * 1024

\* f["size"] > 200 * 1024 * 1024
IsBehemoth(size) == size > 200 * 1024 * 1024

\* A seen table that keeps the last record of a key.
RememberLast(seen, key, path) ==
    [k \in DOMAIN seen \cup {key} |-> IF k = key THEN path ELSE seen[k]]

\* seen after the record at path: only a key not seen before is entered.
Remember(seen, key, path) ==
    IF key \in DOMAIN seen THEN seen
    ELSE [k \in DOMAIN seen \cup {key} |-> IF k = key THEN path ELSE seen[k]]

\* The loop of _detect_monsters over the inventory, from record i on.
RECURSIVE DetectLoop(_, _, _, _, _)
DetectLoop(fs, inventory, i, seen, monsters) ==
    IF i > Len(inventory) THEN monsters
    ELSE LET f == inventory[i]
             m1 == IF IsBehemoth(f.size)
                   THEN Append(monsters, [type |-> "behemoth", path |-> f.path, size |-> f.size])
                   ELSE monsters
             key == <<f.size, NameLower(f.name)>>
         IN IF key \in DOMAIN seen
            THEN LET a == seen[key]
                     b == f.path
                     ha == _sha256_file(fs, a)
                     hb == _sha256_file(fs, b)
                 IN IF ha.ok /\ hb.ok /\ ha.hex = hb.hex
                    THEN DetectLoop(fs, inventory, i + 1, Remember(seen, key, b),
                                    Append(m1, [type |-> "duplicate", a |-> a, b |-> b,
                                                size |-> f.size]))
                    ELSE DetectLoop(fs, inventory, i + 1, Remember(seen, key, b), m1)
            ELSE DetectLoop(fs, inventory, i + 1, Remember(seen, key, f.path), m1)

_detect_monsters(fs, inventory) == DetectLoop(fs, inventory, 1, <<>>, <<>>)

(* ---------------- quest progress ---------------- *)
\* Python floats are IEEE-754 doubles, with a mantissa of 53 bits.  A double
\* of the model is its mantissa as an integer, written in limbs of LimbBits
\* bits below a leading limb, and a binary exponent e: its value is
\* mantissa * 2^(-(Limbs * LimbBits + e)).
LimbBits == 13

Limbs == 4

Radix == 2 ^ LimbBits

RECURSIVE Shift(_, _, _)
\* the least e >= from with s * 2^e >= t
Shift(s, t, from) == IF s * (2 ^ from) >= t THEN from ELSE Shift(s, t, from + 1)

RECURSIVE DivLimbs(_, _, _)
\* the next n limbs of r / t (r < t) and the remainder left after them
DivLimbs(r, t, n) ==
    IF n = 0 THEN [limbs |-> <<>>, rem |-> r]
    ELSE LET rest == DivLimbs((r * Radix) % t, t, n - 1) IN
         [limbs |-> <<(r * Radix) \div t>> \o rest.limbs, rem |-> rest.rem]

RECURSIVE Carry(_, _)
\* the limbs brought back below Radix, from limb i up; the leading limb
\* takes what is carried into it
Carry(limbs, i) ==
    IF i = 1 THEN limbs
    ELSE Carry([limbs EXCEPT ![i] = limbs[i] % Radix,
                             ![i - 1] = limbs[i - 1] + limbs[i] \div Radix], i - 1)

RECURSIVE BitLength(_)
BitLength(n) == IF n = 0 THEN 0 ELSE 1 + BitLength(n \div 2)

\* Round a mantissa to 53 bits, to nearest, ties to even: the bits of the
\* leading limb beyond the first are given up at the low end.
RoundNearestEven(limbs) ==
    LET drop == BitLength(limbs[1]) - 1
        unit == 2 ^ drop
        low == limbs[Len(limbs)]
        dropped == low % unit
        kept == low - dropped
        up == 2 * dropped > unit \/ (2 * dropped = unit /\ (kept \div unit) % 2 = 1)
    IN Carry([limbs EXCEPT ![Len(limbs)] = IF up THEN kept + unit ELSE kept], Len(limbs))

\* sorted_count / total as a double, 0 < sorted_count <= total
TrueDiv(s, t) ==
    LET e == Shift(s, t, 0)
        q == DivLimbs(s * (2 ^ e) - t, t, Limbs)
        m == <<1>> \o q.limbs
        up == 2 * q.rem > t \/ (2 * q.rem = t /\ m[Len(m)] % 2 = 1)
    IN [limbs |-> IF up THEN Carry([m EXCEPT ![Len(m)] = m[Len(m)] + 1], Len(m)) ELSE m,
        e |-> e]

\* x * m as a double, for a small integer m
FloatMul(x, m) ==
    [limbs |-> RoundNearestEven(Carry([k \in 1..Len(x.limbs) |-> x.limbs[k] * m],
                                      Len(x.limbs))),
     e |-> x.e]

\* int(x), x >= 0: the limbs below the leading one are a fraction
FloatToInt(x) == x.limbs[1] \div (2 ^ x.e)

\* 100 if total == 0 else int((sorted_count / total) * 100)
Progress(sorted_count, total) ==
    IF total = 0 THEN 100
    ELSE IF sorted_count = 0 THEN 0
    ELSE FloatToInt(FloatMul(TrueDiv(sorted_count, total), 100))

\* "S" if progress >= 95 else "A" if progress >= 80 else ... else "D"
Rank(progress) ==
    IF progress >= 95 THEN "S"
    ELSE IF progress >= 80 THEN "A"
    ELSE IF progress >= 60 THEN "B"
    ELSE IF progress >= 30 THEN "C"
    ELSE "D"

\* Path(fp).is_relative_to(sorted_root): true of sorted_root itself too
in_sorted(fp, sorted_root) == IsPrefix(sorted_root, fp)

_quest_progress(inventory, base) ==
    LET sorted_root == Append(base, SortedName)
        total == Len(inventory)
        sorted_count == Cardinality({k \in 1..total : in_sorted(inventory[k].path, sorted_root)})
        progress == Progress(sorted_count, total)
    IN [progress |-> progress, rank |-> Rank(progress),
        sorted_count |-> sorted_count, total |-> total]

\* The records of the inventory, in scan order (stat never fails in the model).
_build_scan(fs, base, include_subfolders, exclude_dirs) ==
    LET file_paths == _iter_files(fs, base, include_subfolders, exclude_dirs)
        inventory == [k \in 1..Len(file_paths) |->
                        [path |-> file_paths[k],
                         name |-> Last(file_paths[k]),
                         ext |-> Lower(Last(file_paths[k]).ext),
                         size |-> StatSize(fs[file_paths[k]]),
                         room |-> _room_for(Last(file_paths[k]).ext)]]
    IN [files |-> inventory,
        monsters |-> _detect_monsters(fs, inventory),
        quest |-> _quest_progress(inventory, base)]

(* ---------------- state ---------------- *)
\* The paths a file of the initial tree may sit at.
InitPaths ==
    << <<N("x", ".txt")>>,
       <<[base |-> "x", dups |-> <<1>>, ext |-> ".txt"]>>,
       <<N("sub", ""), N("x", ".txt")>>,
       <<SortedName, N("Docs Library", ""), N("x", ".txt")>>,
       <<SortedName>>,
       <<OutputName>>,
       <<SortedName, N("Docs Library", "")>> >>

\* A small readable file of the tree, with content k.
Data(k) == [kind |-> "data", id |-> k, size |-> 1, readable |-> TRUE]

\* The arguments the tools are called with.
PathArgs == {<<>>, <<N("x", ".txt")>>}

OutputDirArgs == {"dungeon_output", "."}

ModeArgs == {"dry_run", "apply", "bogus"}

NoResult ==
    [op |-> "none", status |-> "none", path |-> <<>>, include_subfolders |-> FALSE,
     mode |-> "", output_dir |-> "", out |-> <<>>, changes |-> <<>>,
     planned_moves |-> 0, applied_moves |-> 0, failed_moves |-> 0, failed |-> <<>>,
     attempts |-> <<>>, file_count |-> 0, monster_count |-> 0, quest_progress |-> 0,
     message |-> "", undone |-> "no"]

\* The files of the initial tree that a scan can return: only these can be
\* the source of a move, so only these are told apart by locked.
Scannable(S) ==
    {i \in S : ~\E k \in 1..Len(InitPaths[i]) : InitPaths[i][k] \in DEFAULT_EXCLUDE_DIRS}

Init ==
    \E S \in SUBSET (1..Len(InitPaths)) :
      \E L \in SUBSET Scannable(S) :
        /\ Cardinality(S) <= MaxFiles
        /\ Cardinality(L) <= MaxLocked
        /\ \A i, j \in S : i # j => ~IsPrefix(InitPaths[i], InitPaths[j])
        /\ files = [p \in {InitPaths[i] : i \in S} |->
                        Data(CHOOSE i \in S : InitPaths[i] = p)]
        /\ dirs = UNION {Prefixes(Parent(InitPaths[i])) : i \in S}
        /\ locked = {Data(i) : i \in L}
        /\ session_output_dir \in OutputDirArgs
        /\ LAST_OUTPUT_DIR = <<N("None", "")>>
        /\ result = NoResult
        /\ calls = 0

Call(op, path, include_subfolders, mode, output_dir) ==
    [NoResult EXCEPT !.op = op, !.path = path, !.include_subfolders = include_subfolders,
                     !.mode = mode, !.output_dir = output_dir]

InvalidRootMessage == "Dungeon entrance not found (invalid folder path)."

InvalidModeMessage == "Invalid mode. Use 'dry_run' or 'apply'."

\* An error result: the call returned before it used its other arguments.
Error(op, path, mode, message) ==
    [NoResult EXCEPT !.op = op, !.status = "error", !.path = path, !.mode = mode,
                     !.message = message]

\* A root check that forgets is_dir().
ValidRootExists(base) == Exists(files, dirs, base)

\* base.exists() and base.is_dir()
ValidRoot(base) == IsDir(dirs, base)

\* A mode check that accepts every mode.
ValidModeAny(mode) == TRUE

\* mode in ("dry_run", "apply")
ValidMode(mode) == mode \in {"dry_run", "apply"}

(* ---------------- the tools ---------------- *)
scan_dungeon(path, include_subfolders, output_dir) ==
    LET base == path
        r == Call("scan_dungeon", path, include_subfolders, "", output_dir)
        out == _resolve_output_dir(base, output_dir)
        data == _build_scan(files, base, include_subfolders, DEFAULT_EXCLUDE_DIRS)
    IN
    /\ calls < MaxCalls
    /\ calls' = calls + 1
    /\ UNCHANGED <<locked, session_output_dir>>
    /\ IF ~ValidRoot(base)
       THEN /\ result' = Error("scan_dungeon", path, "", InvalidRootMessage)
            /\ UNCHANGED <<files, dirs, LAST_OUTPUT_DIR>>
       ELSE IF ~MkdirOk(files, out)
       THEN /\ result' = [r EXCEPT !.status = "raised"]
            /\ UNCHANGED <<files, dirs, LAST_OUTPUT_DIR>>
       ELSE /\ dirs' = Mkdir(dirs, out)
            /\ LAST_OUTPUT_DIR' = out
            /\ files' = Put(files, Append(out, N("dungeon_data", ".json")),
                            [kind |-> "scan", data |-> data])
            /\ result' = [r EXCEPT !.status = "ok", !.out = out,
                                   !.file_count = Len(data.files),
                                   !.monster_count = Len(data.monsters),
                                   !.quest_progress = data.quest.progress]

plan_reorganize(path, include_subfolders, output_dir) ==
    LET base == path
        r == Call("plan_reorganize", path, include_subfolders, "dry_run", output_dir)
        out == _resolve_output_dir(base, output_dir)
        plan == _plan_reorganize(files, Mkdir(dirs, out), base, include_subfolders,
                                 DEFAULT_EXCLUDE_DIRS)
        changes == plan.changes
    IN
    /\ calls < MaxCalls
    /\ calls' = calls + 1
    /\ UNCHANGED <<locked, session_output_dir, LAST_OUTPUT_DIR>>
    /\ IF ~ValidRoot(base)
       THEN /\ result' = Error("plan_reorganize", path, "", InvalidRootMessage)
            /\ UNCHANGED <<files, dirs>>
       ELSE IF ~MkdirOk(files, out)
       THEN /\ result' = [r EXCEPT !.status = "raised"]
            /\ UNCHANGED <<files, dirs>>
       ELSE IF plan.raised
       THEN /\ result' = [r EXCEPT !.status = "raised", !.out = out]
            /\ dirs' = plan.dirs
            /\ UNCHANGED files
       ELSE /\ dirs' = plan.dirs
            /\ files' = _write_undo_ps1(
                            Put(files, Append(out, N("plan_changes", ".json")),
                                [kind |-> "plan", changes |-> changes]),
                            out, changes)
            /\ result' = [r EXCEPT !.status = "ok", !.out = out, !.changes = changes,
                                   !.planned_moves = Len(changes)]

reorganize(path, include_subfolders, mode, output_dir) ==
    LET base == path
        r == Call("reorganize", path, include_subfolders, mode, output_dir)
        out == _resolve_output_dir(base, output_dir)
        plan == _plan_reorganize(files, Mkdir(dirs, out), base, include_subfolders,
                                 DEFAULT_EXCLUDE_DIRS)
        changes == plan.changes
        done == IF mode = "apply"
                THEN ApplyLoop(files, plan.dirs, changes, 1, 0, <<>>, <<>>)
                ELSE [files |-> files, dirs |-> plan.dirs, applied |-> 0,
                      failed |-> <<>>, attempts |-> <<>>]
    IN
    /\ calls < MaxCalls
    /\ calls' = calls + 1
    /\ UNCHANGED <<locked, session_output_dir, LAST_OUTPUT_DIR>>
    /\ IF ~ValidRoot(base)
       THEN /\ result' = Error("reorganize", path, "", InvalidRootMessage)
            /\ UNCHANGED <<files, dirs>>
       ELSE IF ~ValidMode(mode)
       THEN /\ result' = Error("reorganize", path, mode, InvalidModeMessage)
            /\ UNCHANGED <<files, dirs>>
       ELSE IF ~MkdirOk(files, out)
       THEN /\ result' = [r EXCEPT !.status = "raised"]
            /\ UNCHANGED <<files, dirs>>
       ELSE IF plan.raised
       THEN /\ result' = [r EXCEPT !.status = "raised", !.out = out]
            /\ dirs' = plan.dirs
            /\ UNCHANGED files
       ELSE /\ dirs' = done.dirs
            /\ files' = _write_undo_ps1(
                            Put(done.files, Append(out, N("changes", ".json")),
                                [kind |-> "plan", changes |-> changes]),
                            out, changes)
            /\ result' = [r EXCEPT !.status = "ok", !.out = out, !.changes = changes,
                                   !.planned_moves = Len(changes),
                                   !.applied_moves = IF mode = "apply" THEN done.applied ELSE 0,
                                   !.failed_moves = Len(done.failed),
                                   !.failed = done.failed,
                                   !.attempts = done.attempts]

\* The user runs the undo.ps1 that the last reorganize(mode="apply") wrote.
RunUndo ==
    LET undo_ps1 == Append(result.out, N("undo", ".ps1"))
        run == RunScript(files, dirs, files[undo_ps1].lines, 1)
    IN
    /\ result.op = "reorganize"
    /\ result.status = "ok"
    /\ result.mode = "apply"
    /\ result.undone = "no"
    /\ files' = run.files
    /\ result' = [result EXCEPT !.undone = run.undone]
    /\ UNCHANGED <<dirs, locked, session_output_dir, LAST_OUTPUT_DIR, calls>>

\* The caller passes the same output_dir to every call of a session.
ScanStep == \E path \in PathArgs, inc \in BOOLEAN :
                scan_dungeon(path, inc, session_output_dir)

PlanStep == \E path \in PathArgs, inc \in BOOLEAN :
                plan_reorganize(path, inc, session_output_dir)

ReorganizeStep == \E path \in PathArgs, inc \in BOOLEAN, mode \in ModeArgs :
                      reorganize(path, inc, mode, session_output_dir)

Next == ScanStep \/ PlanStep \/ ReorganizeStep \/ RunUndo

Spec == Init /\ [][Next]_vars

(* ---------------- properties ---------------- *)
\* A step that is a tool call (the other steps run an undo script).
IsCall == calls' = calls + 1

Planned(r) == r.op \in {"plan_reorganize", "reorganize"} /\ r.status = "ok"

UndoPath(r) == Append(r.out, N("undo", ".ps1"))

\* C1: in every plan returned by _plan_reorganize no two moves have the same
\* destination path.
C1_DistinctDestinations ==
    Planned(result) =>
        \A i, j \in 1..Len(result.changes) :
            i # j => result.changes[i].to # result.changes[j].to

\* C2: once the undo script of an applied reorganize has run, every file
\* whose move was applied is back at its original source path.
C2_UndoRestoresApplied ==
    result.undone # "no" =>
        \A k \in 1..Len(result.attempts) :
            result.attempts[k].applied =>
                LET src == result.changes[result.attempts[k].move].from IN
                IsFile(files, src) /\ files[src] = result.attempts[k].content

\* C3: a plan computed right after a reorganize(mode="apply") that applied
\* every planned move (its undo script not run since), for the same root and
\* include_subfolders, is empty.
C3_FixedPoint ==
    [][(/\ result.op = "reorganize"
        /\ result.status = "ok"
        /\ result.mode = "apply"
        /\ result.applied_moves = result.planned_moves
        /\ result.undone = "no"
        /\ IsCall
        /\ Planned(result')
        /\ result'.path = result.path
        /\ result'.include_subfolders = result.include_subfolders)
       => result'.changes = <<>>]_vars

\* C4: two consecutive plan_reorganize calls with the same arguments return
\* the same ordered move list.
C4_PlanIdempotent ==
    [][(/\ result.op = "plan_reorganize"
        /\ result.status = "ok"
        /\ IsCall
        /\ result'.op = "plan_reorganize"
        /\ result'.status = "ok"
        /\ result'.path = result.path
        /\ result'.include_subfolders = result.include_subfolders
        /\ result'.output_dir = result.output_dir)
       => result'.changes = result.changes]_vars

DataFiles(fs) == {p \in DOMAIN fs : fs[p].kind = "data"}

\* C6: plan_reorganize and reorganize(mode="dry_run") move no file and create
\* no directory other than the output directory, and a dry run reports
\* applied_moves = 0.
C6_PreviewTouchesNothing ==
    [][(/\ IsCall
        /\ Planned(result')
        /\ result'.mode = "dry_run")
       => /\ DataFiles(files') = DataFiles(files)
          /\ \A p \in DataFiles(files) : files'[p] = files[p]
          /\ dirs' \ Prefixes(result'.out) = dirs \ Prefixes(result'.out)
          /\ result'.applied_moves = 0]_vars

\* C7: every reorganize that computes a plan, in either mode, leaves an undo
\* script holding exactly one inverse instruction (destination to source)
\* per move of the plan, failed moves included, in reverse plan order.
C7_UndoScript ==
    (result.op = "reorganize" /\ result.status = "ok") =>
        LET n == Len(result.changes) IN
        /\ IsFile(files, UndoPath(result))
        /\ files[UndoPath(result)].kind = "undo"
        /\ Len(files[UndoPath(result)].lines) = n
        /\ \A k \in 1..n :
              /\ files[UndoPath(result)].lines[k].literalPath = result.changes[n + 1 - k].to
              /\ files[UndoPath(result)].lines[k].destination = result.changes[n + 1 - k].from

\* C7 witness: an applied plan of two or more moves, one of them failed, and
\* its undo script.
C7_Witness ==
    /\ result.op = "reorganize" /\ result.status = "ok" /\ result.mode = "apply"
    /\ result.planned_moves >= 2
    /\ result.failed_moves >= 1
    /\ result.undone = "no"
    /\ Len(files[UndoPath(result)].lines) = result.planned_moves
    /\ result.changes[1].from # result.changes[2].from

\* C8: a call whose root is missing or is not a directory returns an error and
\* changes neither the filesystem nor LAST_OUTPUT_DIR.
C8_InvalidRoot ==
    [][(IsCall /\ ~IsDir(dirs, result'.path))
       => /\ result'.status = "error"
          /\ result'.message = InvalidRootMessage
          /\ UNCHANGED <<files, dirs, LAST_OUTPUT_DIR>>]_vars

\* C8 witness: scan_dungeon called on a path that is a regular file, after an
\* earlier scan had set LAST_OUTPUT_DIR.
C8_Witness ==
    /\ result.op = "scan_dungeon"
    /\ result.status = "error"
    /\ IsFile(files, result.path)
    /\ LAST_OUTPUT_DIR # <<N("None", "")>>

\* C9: reorganize on a valid root with a mode other than dry_run or apply
\* returns an error, computes no plan, and changes nothing on the filesystem.
C9_InvalidMode ==
    [][(/\ IsCall
        /\ result'.op = "reorganize"
        /\ IsDir(dirs, result'.path)
        /\ result'.mode \notin {"dry_run", "apply"})
       => /\ result'.status = "error"
          /\ result'.message = InvalidModeMessage
          /\ result'.changes = <<>>
          /\ UNCHANGED <<files, dirs, LAST_OUTPUT_DIR>>]_vars

\* C9 witness: the invalid mode was refused on a root that holds a file to
\* sort and has no _Sorted and no output directory yet.
C9_Witness ==
    /\ result.op = "reorganize"
    /\ result.status = "error"
    /\ result.message = InvalidModeMessage
    /\ \E p \in DOMAIN files : Len(p) = 1 /\ files[p].kind = "data"
    /\ ~Exists(files, dirs, <<SortedName>>)
    /\ ~Exists(files, dirs, <<OutputName>>)

\* C10: no call on a root that is an existing directory raises.
C10_NoRaise == result.status # "raised"

(* ---------------- _detect_monsters on its own ---------------- *)
\* The inventories and disks _detect_monsters is applied to: record k sits
\* in a directory of its own; its file is as large as the record says, or
\* has vanished since the scan.
NameChoices == {N("x", ".txt"), N("X", ".TXT"), N("y", ".txt")}

SizeChoices ==
    {max_mb * 1024 * 1024, max_mb * 1024 * 1024 + 1, 200 * 1024 * 1024, 200 * 1024 * 1024 + 1}

DiskChoices(size) ==
    IF size <= max_mb * 1024 * 1024
    THEN {[present |-> TRUE, id |-> 1, readable |-> TRUE],
          [present |-> TRUE, id |-> 2, readable |-> TRUE],
          [present |-> TRUE, id |-> 1, readable |-> FALSE],
          [present |-> FALSE, id |-> 1, readable |-> FALSE]}
    ELSE {[present |-> TRUE, id |-> 1, readable |-> TRUE]}

RecordChoices ==
    UNION {{[name |-> n, size |-> sz, disk |-> d] : d \in DiskChoices(sz)} :
              <<n, sz>> \in NameChoices \X SizeChoices}

RecordPath(k, name) == <<[base |-> "d", dups |-> <<k>>, ext |-> ""], name>>

DetectInit ==
    \E n \in 0..MaxInventory :
      \E c \in [1..n -> RecordChoices] :
        /\ files = [p \in {RecordPath(k, c[k].name) : k \in {j \in 1..n : c[j].disk.present}} |->
                       LET k == CHOOSE j \in 1..n : RecordPath(j, c[j].name) = p IN
                       [kind |-> "data", id |-> c[k].disk.id, size |-> c[k].size,
                        readable |-> c[k].disk.readable]]
        /\ dirs = {Parent(RecordPath(k, c[k].name)) : k \in 1..n}
        /\ locked = {}
        /\ session_output_dir = "dungeon_output"
        /\ LAST_OUTPUT_DIR = <<N("None", "")>>
        /\ result = [op |-> "_detect_monsters", status |-> "called",
                     files |-> [k \in 1..n |-> [path |-> RecordPath(k, c[k].name),
                                                name |-> c[k].name, size |-> c[k].size]],
                     monsters |-> <<>>]
        /\ calls = 0

DetectStep ==
    /\ result.status = "called"
    /\ result' = [result EXCEPT !.status = "returned",
                                !.monsters = _detect_monsters(files, result.files)]
    /\ calls' = calls + 1
    /\ UNCHANGED <<files, dirs, locked, session_output_dir, LAST_OUTPUT_DIR>>

DetectNext == DetectStep

DetectSpec == DetectInit /\ [][DetectNext]_vars

Returned == result.status = "returned"

Duplicates == {result.monsters[k] : k \in {j \in 1..Len(result.monsters) :
                                              result.monsters[j].type = "duplicate"}}

SameKey(i, j) ==
    /\ result.files[i].size = result.files[j].size
    /\ NameLower(result.files[i].name) = NameLower(result.files[j].name)

\* Both files are on the disk and hold the same bytes.
SameContent(i, j) ==
    LET pi == result.files[i].path
        pj == result.files[j].path
    IN /\ IsFile(files, pi) /\ IsFile(files, pj)
       /\ files[pi].id = files[pj].id /\ files[pi].size = files[pj].size

Reported(i, j) ==
    \E m \in Duplicates : {m.a, m.b} = {result.files[i].path, result.files[j].path}

CanHash(p) == IsFile(files, p) /\ files[p].readable /\ files[p].size <= 50 * 1024 * 1024

FirstOfKey(i) == \A j \in 1..(i - 1) : ~SameKey(j, i)

RecordPairs == {<<i, j>> \in (1..Len(result.files)) \X (1..Len(result.files)) : i < j}

\* C11 as stated: of two records with the same key, the pair is reported as a
\* duplicate exactly when their files hold the same bytes.
C11_DuplicatesComplete ==
    Returned =>
        \A <<i, j>> \in RecordPairs : SameKey(i, j) => (Reported(i, j) <=> SameContent(i, j))

\* C11 amended: two records with the same key whose bytes differ are never
\* reported; two with the same bytes are reported when both files can be
\* hashed (present, readable, at most 50 MiB) and the earlier of the two is
\* the first record of the key.
C11_DuplicatesOfAnchor ==
    Returned =>
        \A <<i, j>> \in RecordPairs :
            SameKey(i, j) =>
                /\ ~SameContent(i, j) => ~Reported(i, j)
                /\ (/\ SameContent(i, j) /\ FirstOfKey(i)
                    /\ CanHash(result.files[i].path) /\ CanHash(result.files[j].path))
                       => Reported(i, j)

C11_Witness ==
    /\ Returned
    /\ \E <<i, j>> \in RecordPairs :
          /\ SameKey(i, j) /\ SameContent(i, j) /\ FirstOfKey(i) /\ Reported(i, j)
          /\ result.files[i].name # result.files[j].name
    /\ \E <<i, j>> \in RecordPairs :
          /\ SameKey(i, j) /\ ~SameContent(i, j) /\ ~Reported(i, j)
          /\ CanHash(result.files[i].path) /\ CanHash(result.files[j].path)

Behemoths == {k \in 1..Len(result.monsters) : result.monsters[k].type = "behemoth"}

\* C12: a record gets exactly one behemoth anomaly when its size is above
\* 200 MiB and none when it is 200 MiB or less, whatever else shares its key.
C12_BehemothThreshold ==
    Returned =>
        /\ \A i \in 1..Len(result.files) :
              Cardinality({k \in Behemoths : result.monsters[k].path = result.files[i].path})
                 = IF result.files[i].size > 200 * 1024 * 1024 THEN 1 ELSE 0
        /\ \A k \in Behemoths :
              \E i \in 1..Len(result.files) :
                 /\ result.monsters[k].path = result.files[i].path
                 /\ result.monsters[k].size = result.files[i].size

C12_Witness ==
    /\ Returned
    /\ \E <<i, j>> \in RecordPairs :
          /\ SameKey(i, j)
          /\ result.files[i].size = 200 * 1024 * 1024 + 1
          /\ Cardinality(Behemoths) = 2
    /\ \E i \in 1..Len(result.files) : result.files[i].size = 200 * 1024 * 1024

\* C15: a duplicate anomaly names two files that are both present, readable
\* and at most 50 MiB, and that hold the same bytes.
C15_NoFalseDuplicates ==
    Returned =>
        \A m \in Duplicates :
            /\ CanHash(m.a) /\ CanHash(m.b)
            /\ files[m.a].id = files[m.b].id /\ files[m.a].size = files[m.b].size

C15_Witness ==
    /\ Returned
    /\ Duplicates # {}
    /\ \E <<i, j>> \in RecordPairs :
          /\ SameKey(i, j) /\ SameContent(i, j) /\ ~Reported(i, j)
          /\ ~CanHash(result.files[j].path)

KeyOfPath(p) ==
    LET i == CHOOSE k \in 1..Len(result.files) : result.files[k].path = p IN
    <<result.files[i].size, NameLower(result.files[i].name)>>

RecordsOfKey(key) ==
    {i \in 1..Len(result.files) :
        <<result.files[i].size, NameLower(result.files[i].name)>> = key}

\* C16: the 'a' of every duplicate anomaly is the first record of the key of
\* its 'b', and the k records of a key yield at most k - 1 duplicate anomalies.
C16_AnchorIsFirst ==
    Returned =>
        /\ \A m \in Duplicates :
              LET first == CHOOSE i \in RecordsOfKey(KeyOfPath(m.b)) :
                              \A j \in RecordsOfKey(KeyOfPath(m.b)) : i <= j
              IN m.a = result.files[first].path /\ m.a # m.b
        /\ \A i \in 1..Len(result.files) :
              LET key == KeyOfPath(result.files[i].path) IN
              Cardinality({k \in 1..Len(result.monsters) :
                              /\ result.monsters[k].type = "duplicate"
                              /\ KeyOfPath(result.monsters[k].b) = key})
                 <= Cardinality(RecordsOfKey(key)) - 1

C16_Witness ==
    /\ Returned
    /\ \E key \in {KeyOfPath(result.files[i].path) : i \in 1..Len(result.files)} :
          /\ Cardinality(RecordsOfKey(key)) = 3
          /\ Cardinality(Duplicates) = 2

(* ---------------- _quest_progress on its own ---------------- *)
\* The inventories _quest_progress is applied to: total records, of which
\* sorted_count lie below <root>/_Sorted, the sorted ones first or last; the
\* root is the tree's root or a folder below it.
QuestFile(k) == [base |-> "f", dups |-> <<k>>, ext |-> ".txt"]

QuestRoots == {<<>>, <<N("sub", "")>>}

QuestInventory(total, sorted_count, sortedFirst) ==
    [k \in 1..total |->
        LET isSorted == IF sortedFirst THEN k <= sorted_count ELSE k > total - sorted_count IN
        [path |-> IF isSorted THEN <<SortedName, N("Docs Library", ""), QuestFile(k)>>
                  ELSE <<QuestFile(k)>>,
         name |-> QuestFile(k)]]

QuestInit ==
    \E total \in 0..MaxTotal :
      \E sorted_count \in 0..total :
        \E sortedFirst \in BOOLEAN :
          \E base \in QuestRoots :
            /\ files = <<>>
            /\ dirs = {}
            /\ locked = {}
            /\ session_output_dir = "dungeon_output"
            /\ LAST_OUTPUT_DIR = <<N("None", "")>>
            /\ result = [op |-> "_quest_progress", status |-> "called", base |-> base,
                         files |-> QuestInventory(total, sorted_count, sortedFirst),
                         quest |-> [progress |-> 0, rank |-> "", sorted_count |-> 0,
                                    total |-> 0]]
            /\ calls = 0

QuestStep ==
    /\ result.status = "called"
    /\ result' = [result EXCEPT !.status = "returned",
                                !.quest = _quest_progress(result.files, result.base)]
    /\ calls' = calls + 1
    /\ UNCHANGED <<files, dirs, locked, session_output_dir, LAST_OUTPUT_DIR>>

QuestNext == QuestStep

QuestSpec == QuestInit /\ [][QuestNext]_vars

\* C13: sorted_count is the number of records below <root>/_Sorted, progress
\* is floor(100 * sorted_count / total), 100 for an empty inventory, and the
\* rank is S from 95, A from 80, B from 60, C from 30 and D below.
C13_QuestProgress ==
    Returned =>
        LET q == result.quest
            n == Cardinality({k \in 1..Len(result.files) :
                                 IsPrefix(Append(result.base, SortedName), result.files[k].path)})
        IN /\ q.total = Len(result.files)
           /\ q.sorted_count = n
           /\ q.progress = IF q.total = 0 THEN 100 ELSE (100 * n) \div q.total
           /\ q.rank = CASE q.progress >= 95 -> "S"
                         [] q.progress >= 80 /\ q.progress < 95 -> "A"
                         [] q.progress >= 60 /\ q.progress < 80 -> "B"
                         [] q.progress >= 30 /\ q.progress < 60 -> "C"
                         [] OTHER -> "D"

(* ---------------- the sorted tree ---------------- *)
UnderSorted(base, p) ==
    /\ Len(p) > Len(base)
    /\ SubSeq(p, 1, Len(base)) = base
    /\ p[Len(base) + 1] = N("_Sorted", "")

\* C14: a plan never moves a file out of <root>/_Sorted: after any calls, no
\* file that lies in the sorted tree when a plan is made is the source of one
\* of its moves.
C14_SortedNeverPlanned ==
    [][(IsCall /\ Planned(result')) =>
          /\ \A k \in 1..Len(result'.changes) :
                ~UnderSorted(result'.path, result'.changes[k].from)
          /\ \A p \in DOMAIN files :
                UnderSorted(result'.path, p) =>
                    \A k \in 1..Len(result'.changes) : result'.changes[k].from # p]_vars

\* A second call planned a move while a file that an earlier call moved into
\* the sorted tree is there.
C14_Witness ==
    /\ calls = 2
    /\ Planned(result)
    /\ Len(result.changes) >= 1
    /\ \E p \in DOMAIN files :
          /\ UnderSorted(result.path, p)
          /\ files[p].kind = "data"
          /\ ~UnderSorted(<<>>, InitPaths[files[p].id])
          /\ \A k \in 1..Len(result.changes) : result.changes[k].to # p

(* ---------------- scans ---------------- *)
Scanned(r) == r.op = "scan_dungeon" /\ r.status = "ok"

\* The inventory document the scan wrote.
ScanData(fs, r) == fs[Append(r.out, N("dungeon_data", ".json"))].data

HasExcludedComponent(base, p) ==
    \E k \in (Len(base) + 1)..Len(p) : p[k] \in {N("_Sorted", ""), N("_DungeonOutput", "")}

\* C17: with either value of include_subfolders the inventory of a scan holds
\* no path with a component named _Sorted or _DungeonOutput, and a recursive
\* scan returns every regular file below the root that has no such component.
C17_ExcludedComponents ==
    [][(IsCall /\ Scanned(result')) =>
          LET inventory == ScanData(files', result').files
              paths == {inventory[k].path : k \in 1..Len(inventory)}
          IN /\ \A p \in paths : ~HasExcludedComponent(result'.path, p)
             /\ result'.include_subfolders =>
                   paths = {p \in DOMAIN files :
                               /\ Len(p) > Len(result'.path)
                               /\ SubSeq(p, 1, Len(result'.path)) = result'.path
                               /\ ~HasExcludedComponent(result'.path, p)}]_vars

\* C18: reorganize(mode="apply") destroys no file of the tree: each is
\* afterwards, with its content, where it was or at the destination the plan
\* gave it, and a file that was under <root>/_Sorted is still there unchanged.
C18_NoFileDestroyed ==
    [][(/\ IsCall
        /\ result'.op = "reorganize"
        /\ result'.status = "ok"
        /\ result'.mode = "apply") =>
          \A p \in DOMAIN files :
              files[p].kind = "data" =>
                 /\ \/ p \in DOMAIN files' /\ files'[p] = files[p]
                    \/ \E k \in 1..Len(result'.changes) :
                          /\ result'.changes[k].from = p
                          /\ result'.changes[k].to \in DOMAIN files'
                          /\ files'[result'.changes[k].to] = files[p]
                 /\ UnderSorted(result'.path, p) =>
                       p \in DOMAIN files' /\ files'[p] = files[p]]_vars

\* C19: the inventory of a scan holds no record under <root>/_Sorted, for
\* either value of include_subfolders, so its sorted_count is 0 and the quest
\* progress reported is 100 for an empty inventory and 0 otherwise.
C19_ScanNeverSorted ==
    Scanned(result) =>
        LET data == ScanData(files, result) IN
        /\ \A k \in 1..Len(data.files) :
              ~(/\ Len(data.files[k].path) > Len(result.path)
                /\ SubSeq(data.files[k].path, 1, Len(result.path) + 1)
                      = Append(result.path, N("_Sorted", "")))
        /\ data.quest.sorted_count = 0
        /\ result.quest_progress = IF Len(data.files) = 0 THEN 100 ELSE 0
====
